---- MODULE Spec2Model ----
(***************************************************************************)
(* State-machine model of four components of the hypertrophy logbook:      *)
(*   - the sign-in route action            (exercise-fieldset.tsx:146-207) *)
(*   - the ExerciseFieldset set list       (exercise-fieldset.tsx:27-127)  *)
(*   - the Folder notes form               (folder.tsx)                    *)
(*   - the root ErrorBoundary              (root.tsx:86-134)               *)
(* One component is mounted per behaviour (variable mounted, fixed by      *)
(* Init); each component's actions are guarded by it.                      *)
(***************************************************************************)
EXTENDS Integers, Sequences, FiniteSets, TLC

VARIABLES
  mounted,      \* which component this behaviour exercises
  request,      \* sign-in: <<>> or <<formData>> of the last POST
  calls,        \* sign-in: collaborator calls made while handling it
  response,     \* sign-in: <<>> or <<response>> returned by the action
  exists,       \* exercise fieldset: the exercise has not been deleted
  setsList,     \* exercise fieldset: the sets of the exercise, in order
  folderNotes,  \* folder: folder.notes as delivered by the loader
  open,         \* folder: the Disclosure is open
  fieldValue,   \* folder: current content of the notes textarea
  pending,      \* folder: a debounce timer is armed
  elapsed,      \* folder: time since the timer was (re)armed
  changes,      \* folder: number of input changes so far
  submissions,  \* folder: submissions made, oldest first
  historyLen,   \* folder: number of browser history entries
  scrollY,      \* folder: scroll position of the page
  routeError,   \* error boundary: <<>> or <<error>> given by useRouteError
  rendered      \* error boundary: <<>> or <<outcome of ErrorBoundary()>>

vars == <<mounted, request, calls, response, exists, setsList, folderNotes,
          open, fieldValue, pending, elapsed, changes, submissions,
          historyLen, scrollY, routeError, rendered>>

signInVars == <<request, calls, response>>
exerciseVars == <<exists, setsList>>
folderVars == <<folderNotes, open, fieldValue, pending, elapsed, changes,
                submissions, historyLen, scrollY>>
errorVars == <<routeError, rendered>>

Components == {"SignIn", "ExerciseFieldset", "Folder", "ErrorBoundary"}

(***************************************************************************)
(* Sign-in action                                                          *)
(***************************************************************************)

EmailMin == 1
EmailMax == 254
PasswordMin == 8
PasswordMax == 128
BadRequest == 400
SeeOther == 303
Found == 302

\* A submitted text field: absent from the form data, or a string described
\* by its length and by whether it has the shape of an e-mail address.
Field(present, len, wellFormed) ==
  [present |-> present, len |-> len, wellFormed |-> wellFormed]

Emails ==
  { Field(FALSE, 0, FALSE), Field(TRUE, 0, FALSE), Field(TRUE, 5, FALSE),
    Field(TRUE, 12, TRUE), Field(TRUE, EmailMax, TRUE),
    Field(TRUE, EmailMax + 1, TRUE), Field(TRUE, EmailMax + 1, FALSE) }

Passwords ==
  { Field(FALSE, 0, FALSE), Field(TRUE, PasswordMin - 1, FALSE),
    Field(TRUE, PasswordMin, FALSE), Field(TRUE, PasswordMax, FALSE),
    Field(TRUE, PasswordMax + 1, FALSE) }

Intents == {"submit", "validate/email", "validate/password"}

FormDatas == [email : Emails, password : Passwords, intent : Intents]

UserIds == {"u1", "u2"}
CustomerIds == {"", "cus_1"}
GeneratedIds == {"g1", "g2"}

\* What verifyLogin finds for the submitted credentials: no user (and why),
\* or the user record.
LoginOutcomes(email) ==
  { [user |-> <<>>, why |-> w] : w \in {"unknown email", "wrong password"} }
  \cup
  { [user |-> << [id |-> i, email |-> email, subscription |-> s,
                  stripeCustomerId |-> c] >>, why |-> "ok"] :
      i \in UserIds, s \in BOOLEAN, c \in CustomerIds }

NoError == ""

EmailError(f) ==
  IF ~f.present THEN "Email is required."
  ELSE IF f.len < EmailMin THEN "Email is required."
  ELSE IF f.len > EmailMax THEN "Email must be at most 254 characters long."
  ELSE IF ~f.wellFormed THEN "Email is not valid."
  ELSE NoError

PasswordErrorNoMin(f) ==
  IF ~f.present THEN "Password is required."
  ELSE IF f.len > PasswordMax
    THEN "Password must be at most 128 characters long."
  ELSE NoError

PasswordError(f) ==
  IF ~f.present THEN "Password is required."
  ELSE IF f.len < PasswordMin
    THEN "Password must be at least 8 characters long."
  ELSE IF f.len > PasswordMax
    THEN "Password must be at most 128 characters long."
  ELSE NoError

FieldError(name, formData) ==
  IF name = "email" THEN EmailError(formData.email)
  ELSE PasswordError(formData.password)

\* parse(formData, { schema }): the submission with its intent, the per-field
\* errors and, only when the schema accepts the payload, the parsed value.
parse(formData) ==
  LET failing == { n \in {"email", "password"} :
                     FieldError(n, formData) # NoError }
  IN [ intent |-> formData.intent,
       payload |-> [email |-> formData.email, password |-> formData.password],
       error |-> [n \in failing |-> FieldError(n, formData)],
       value |-> IF failing = {}
                 THEN << [email |-> formData.email,
                          password |-> formData.password] >>
                 ELSE <<>> ]

NoHeaders == [n \in {} |-> <<>>]

json(data, status) ==
  [status |-> status, headers |-> NoHeaders, body |-> <<data>>]

\* redirect(url, init): the status of init, 302 when init gives none; the
\* headers of init plus Location.
redirect(url, init) ==
  [ status |-> IF "status" \in DOMAIN init THEN init.status ELSE Found,
    headers |-> (IF "headers" \in DOMAIN init THEN init.headers ELSE NoHeaders)
                @@ ("Location" :> url),
    body |-> <<>> ]

appRoot == <<"/app">>
signInRoute == "/sign-in"

Call(fn, args, result) == [fn |-> fn, args |-> args, result |-> result]

verifyLogin(email, password, outcome) == outcome.user

createStripeCheckoutSession(userId, email, cancelUrl, customerId) ==
  <<"https://checkout.stripe.com", userId, cancelUrl, customerId>>

createUserSession(req, userId) == [userId |-> userId]

commitSession(session) == <<"__session", session.userId>>

RejectedIgnoringIntent(submission) == submission.value = <<>>

\* if (!submission.value || submission.intent !== "submit")
Rejected(submission) ==
  submission.value = <<>> \/ submission.intent # "submit"

LoginFailedOk(submission) ==
  json([submission EXCEPT !.error =
          @ @@ ("form" :> "You have entered an invalid email or password.")],
       200)

\* if (!user) { submission.error["form"] = ...; return json(submission, 400) }
LoginFailed(submission) ==
  json([submission EXCEPT !.error =
          ("form" :> "You have entered an invalid email or password.") @@ @],
       BadRequest)

CheckoutBranchAlsoSession(user, genId, req) ==
  LET cancelUrl == <<signInRoute, "canceled_id", genId>>
      sessionUrl == createStripeCheckoutSession(user.id, user.email, cancelUrl,
                                                user.stripeCustomerId)
      userSession == createUserSession(req, user.id)
  IN [ calls |-> << Call("createStripeCheckoutSession",
                         <<user.id, user.email, cancelUrl,
                           user.stripeCustomerId>>, sessionUrl),
                    Call("createUserSession", <<user.id>>, userSession),
                    Call("commitSession", <<userSession>>,
                         commitSession(userSession)) >>,
       response |-> redirect(sessionUrl,
                      [status |-> SeeOther,
                       headers |-> ("Set-Cookie" :>
                                      commitSession(userSession))]) ]

\* if (!user.subscription) { ... return redirect(sessionUrl, { status: 303 }) }
CheckoutBranch(user, genId, req) ==
  LET cancelUrl == <<signInRoute, "canceled_id", genId>>
      sessionUrl == createStripeCheckoutSession(user.id, user.email, cancelUrl,
                                                user.stripeCustomerId)
  IN [ calls |-> << Call("createStripeCheckoutSession",
                         <<user.id, user.email, cancelUrl,
                           user.stripeCustomerId>>, sessionUrl) >>,
       response |-> redirect(sessionUrl, [status |-> SeeOther]) ]

SessionBranchNoCookie(user, req) ==
  LET userSession == createUserSession(req, user.id)
  IN [ calls |-> << Call("createUserSession", <<user.id>>, userSession) >>,
       response |-> redirect(appRoot, [headers |-> NoHeaders]) ]

\* createUserSession, then redirect(appRoot, { headers: { "Set-Cookie": ... } })
SessionBranch(user, req) ==
  LET userSession == createUserSession(req, user.id)
      cookie == commitSession(userSession)
  IN [ calls |-> << Call("createUserSession", <<user.id>>, userSession),
                    Call("commitSession", <<userSession>>, cookie) >>,
       response |-> redirect(appRoot, [headers |-> ("Set-Cookie" :> cookie)]) ]

\* The whole handler: what it calls and what it returns.
action(formData, outcome, genId) ==
  LET submission == parse(formData) IN
  IF Rejected(submission)
  THEN [calls |-> <<>>, response |-> json(submission, BadRequest)]
  ELSE
    LET value == submission.value[1]
        user == verifyLogin(value.email, value.password, outcome)
        first == << Call("verifyLogin", <<value.email, value.password>>,
                         outcome) >>
    IN IF user = <<>>
       THEN [calls |-> first, response |-> LoginFailed(submission)]
       ELSE LET rest == IF ~user[1].subscription
                        THEN CheckoutBranch(user[1], genId, formData)
                        ELSE SessionBranch(user[1], formData)
            IN [calls |-> first \o rest.calls, response |-> rest.response]

SignInPost ==
  /\ mounted = "SignIn"
  /\ \E formData \in FormDatas, genId \in GeneratedIds :
       \E outcome \in LoginOutcomes(formData.email) :
         LET r == action(formData, outcome, genId) IN
         /\ request' = <<formData>>
         /\ calls' = r.calls
         /\ response' = <<r.response>>
  /\ UNCHANGED <<mounted, exerciseVars, folderVars, errorVars>>

(***************************************************************************)
(* ExerciseFieldset: the list of sets of one exercise                      *)
(***************************************************************************)

MaxSets == 10

\* defaultValue of list.append
DefaultSet == [rir |-> "0", repRange |-> "5-8", weight |-> ""]

\* A set that was already part of the form when the fieldset was mounted.
LoadedSet == [rir |-> "2", repRange |-> "8-12", weight |-> "60"]

InitialSetsLists == { [i \in 1..n |-> LoadedSet] : n \in 0..MaxSets }

AddSetOfferedOffByOne == Len(setsList) <= MaxSets

\* {setsList.length < 10 ? <button {...list.append(...)}> : null}
AddSetOffered == Len(setsList) < MaxSets

\* list.append(sets.name, { defaultValue })
AppendDefault == setsList' = Append(setsList, DefaultSet)

AddSet ==
  /\ mounted = "ExerciseFieldset"
  /\ exists
  /\ AddSetOffered
  /\ AppendDefault
  /\ UNCHANGED <<mounted, exists, signInVars, folderVars, errorVars>>

\* The remove control of SetFieldset: list.remove(sets.name, { index }).
RemoveSet ==
  /\ mounted = "ExerciseFieldset"
  /\ exists
  /\ \E i \in DOMAIN setsList :
       setsList' = SubSeq(setsList, 1, i - 1)
                   \o SubSeq(setsList, i + 1, Len(setsList))
  /\ UNCHANGED <<mounted, exists, signInVars, folderVars, errorVars>>

\* list.remove(props.exercisesConfig.name, { index: props.index })
DeleteExercise ==
  /\ mounted = "ExerciseFieldset"
  /\ exists
  /\ exists' = FALSE
  /\ setsList' = <<>>
  /\ UNCHANGED <<mounted, signInVars, folderVars, errorVars>>

(***************************************************************************)
(* Folder: the notes form and its debounced submission                     *)
(***************************************************************************)

Delay == 2
MaxChanges == 2
MaxScroll == 1

null == "<null>"
NoteTexts == {"", "deload week", "push heavy"}

\* JavaScript truthiness of folder.notes (string | null)
Truthy(notes) == notes # null /\ notes # ""

SubmitOptionsPush == [preventScrollReset |-> TRUE, replace |-> FALSE]

\* useDebouncedSubmit(form, { preventScrollReset: true, replace: true })
SubmitOptions == [preventScrollReset |-> TRUE, replace |-> TRUE]

NotesFormRenderedAlways == open

\* <Disclosure.Panel> {folder.notes ? <Form ...> : null}
NotesFormRendered == open /\ Truthy(folderNotes)

\* Disclosure.Button
ToggleDisclosure ==
  /\ mounted = "Folder"
  /\ open' = ~open
  /\ UNCHANGED <<mounted, folderNotes, fieldValue, pending, elapsed, changes,
                 submissions, historyLen, scrollY, signInVars, exerciseVars,
                 errorVars>>

Scroll ==
  /\ mounted = "Folder"
  /\ \E y \in 0..MaxScroll : y # scrollY /\ scrollY' = y
  /\ UNCHANGED <<mounted, folderNotes, open, fieldValue, pending, elapsed,
                 changes, submissions, historyLen, signInVars, exerciseVars,
                 errorVars>>

\* onChange={submit}: an edit of the textarea (re)arms the debounce timer.
NotesChange ==
  /\ mounted = "Folder"
  /\ NotesFormRendered
  /\ changes < MaxChanges
  /\ \E text \in NoteTexts : text # fieldValue /\ fieldValue' = text
  /\ pending' = TRUE
  /\ elapsed' = 0
  /\ changes' = changes + 1
  /\ UNCHANGED <<mounted, folderNotes, open, submissions, historyLen, scrollY,
                 signInVars, exerciseVars, errorVars>>

\* Time passes while the timer is armed.
TimerTick ==
  /\ mounted = "Folder"
  /\ pending
  /\ elapsed < Delay
  /\ elapsed' = elapsed + 1
  /\ UNCHANGED <<mounted, folderNotes, open, fieldValue, pending, changes,
                 submissions, historyLen, scrollY, signInVars, exerciseVars,
                 errorVars>>

\* The timer expires: the form is submitted with the options, the route
\* action persists the notes and the loader data is revalidated.
TimerFire ==
  /\ mounted = "Folder"
  /\ pending
  /\ elapsed = Delay
  /\ pending' = FALSE
  /\ submissions' = Append(submissions,
                           [notes |-> fieldValue, options |-> SubmitOptions])
  /\ historyLen' = IF SubmitOptions.replace THEN historyLen ELSE historyLen + 1
  /\ scrollY' = IF SubmitOptions.preventScrollReset THEN scrollY ELSE 0
  /\ folderNotes' = fieldValue
  /\ UNCHANGED <<mounted, open, fieldValue, elapsed, changes, signInVars,
                 exerciseVars, errorVars>>

(***************************************************************************)
(* Root ErrorBoundary                                                      *)
(***************************************************************************)

NotFound == 404
InternalServerError == 500

\* What useRouteError() gives: a route error response with its status, or
\* any other thrown value.
RouteErrors ==
  { [isResponse |-> TRUE, status |-> s] :
      s \in {400, 401, 403, NotFound, InternalServerError, 503} }
  \cup { [isResponse |-> FALSE, status |-> 0] }

Pathnames == {"/", "/app/train"}

ErrorPage(statusCode, title, pathname) ==
  [threw |-> FALSE, statusCode |-> statusCode, title |-> title,
   pathname |-> pathname]

Throw(status, pathname) ==
  [threw |-> TRUE, statusCode |-> status, title |-> "Unhandled error",
   pathname |-> pathname]

ErrorBoundary(error, pathname) ==
  IF error.isResponse
  THEN IF error.status = NotFound
       THEN ErrorPage(error.status, "Page not found", pathname)
       ELSE IF error.status # InternalServerError
       THEN ErrorPage(error.status, "Oh no, something did not go well.",
                      pathname)
       ELSE Throw(error.status, pathname)
  ELSE ErrorPage(InternalServerError, "Oh no, something did not go well.",
                 pathname)

RenderError ==
  /\ mounted = "ErrorBoundary"
  /\ \E error \in RouteErrors, pathname \in Pathnames :
       /\ routeError' = <<error>>
       /\ rendered' = <<ErrorBoundary(error, pathname)>>
  /\ UNCHANGED <<mounted, signInVars, exerciseVars, folderVars>>

(***************************************************************************)
(* Initial state and next-state relation                                   *)
(***************************************************************************)

Init ==
  /\ mounted \in Components
  /\ request = <<>> /\ calls = <<>> /\ response = <<>>
  /\ exists = TRUE
  /\ IF mounted = "ExerciseFieldset"
     THEN setsList \in InitialSetsLists
     ELSE setsList = <<>>
  /\ IF mounted = "Folder"
     THEN folderNotes \in NoteTexts \cup {null}
     ELSE folderNotes = null
  /\ open = FALSE
  /\ fieldValue = (IF Truthy(folderNotes) THEN folderNotes ELSE "")
  /\ pending = FALSE /\ elapsed = 0 /\ changes = 0 /\ submissions = <<>>
  /\ historyLen = 1 /\ scrollY = 0
  /\ routeError = <<>> /\ rendered = <<>>

Next ==
  \/ SignInPost
  \/ AddSet
  \/ RemoveSet
  \/ DeleteExercise
  \/ ToggleDisclosure
  \/ Scroll
  \/ NotesChange
  \/ TimerTick
  \/ TimerFire
  \/ RenderError

Spec == Init /\ [][Next]_vars

\* The debounce timer is a browser timer: time passes and an expired timer
\* runs its callback.
FairSpec == Spec /\ WF_vars(TimerTick) /\ WF_vars(TimerFire)

(***************************************************************************)
(* Properties of the sign-in action                                        *)
(***************************************************************************)

Handled == mounted = "SignIn" /\ response # <<>>
Req == request[1]
Resp == response[1]
Called(fn) == \E i \in DOMAIN calls : calls[i].fn = fn
ResultOf(fn) == calls[CHOOSE i \in DOMAIN calls : calls[i].fn = fn].result
ArgsOf(fn) == calls[CHOOSE i \in DOMAIN calls : calls[i].fn = fn].args
HasHeader(name) == name \in DOMAIN Resp.headers

\* The schema's constraints, as the claims word them.
EmailAccepted(f) ==
  f.present /\ f.len >= 1 /\ f.len <= 254 /\ f.wellFormed
PasswordAccepted(f) == f.present /\ f.len >= 8 /\ f.len <= 128
PassesSchema(formData) ==
  EmailAccepted(formData.email) /\ PasswordAccepted(formData.password)

\* verifyLogin was called and returned a user / returned no user.
Verified == Called("verifyLogin") /\ ResultOf("verifyLogin").user # <<>>
VerifiedUser == ResultOf("verifyLogin").user[1]
LoginRefused == Called("verifyLogin") /\ ResultOf("verifyLogin").user = <<>>

\* C1: a submission that passes the schema with intent "submit" reaches
\* verifyLogin, and when verifyLogin returns a user who has a subscription
\* the response is a redirect to the app root whose Set-Cookie header is the
\* committed session that createUserSession made for that user's id.
C1_SubscribedUserGetsSessionCookie ==
  (Handled /\ PassesSchema(Req) /\ Req.intent = "submit") =>
    /\ Called("verifyLogin")
    /\ (Verified /\ VerifiedUser.subscription) =>
         /\ Resp.status \in 300..399
         /\ HasHeader("Location") /\ Resp.headers["Location"] = <<"/app">>
         /\ Called("createUserSession")
         /\ ArgsOf("createUserSession") = <<VerifiedUser.id>>
         /\ Called("commitSession")
         /\ ArgsOf("commitSession") = <<ResultOf("createUserSession")>>
         /\ HasHeader("Set-Cookie")
         /\ Resp.headers["Set-Cookie"] = ResultOf("commitSession")
         /\ Resp.headers["Set-Cookie"] = <<"__session", VerifiedUser.id>>

C1_Witness ==
  /\ Handled /\ PassesSchema(Req) /\ Req.intent = "submit"
  /\ Verified /\ VerifiedUser.subscription /\ VerifiedUser.id = "u2"
  /\ HasHeader("Set-Cookie")

\* C2: when the form passes the schema (and is a "submit") but verifyLogin
\* returns no user, the response has status 400, no redirect and no cookie,
\* and its body is the submission with exactly one error, the form-level
\* "You have entered an invalid email or password."; this holds for either
\* reason of the failure, and no checkout session or user session is made.
C2_InvalidCredentialsGeneric400 ==
  (Handled /\ PassesSchema(Req) /\ Req.intent = "submit") =>
    /\ Called("verifyLogin")
    /\ LoginRefused =>
         /\ ResultOf("verifyLogin").why \in {"unknown email", "wrong password"}
         /\ Resp.status = 400
         /\ Resp.headers = NoHeaders
         /\ Len(Resp.body) = 1
         /\ Resp.body[1].intent = Req.intent
         /\ Resp.body[1].payload =
              [email |-> Req.email, password |-> Req.password]
         /\ DOMAIN Resp.body[1].error = {"form"}
         /\ Resp.body[1].error["form"] =
              "You have entered an invalid email or password."
         /\ ~Called("createStripeCheckoutSession")
         /\ ~Called("createUserSession")
         /\ ~Called("commitSession")

C2_Witness ==
  /\ Handled /\ PassesSchema(Req) /\ LoginRefused
  /\ ResultOf("verifyLogin").why = "wrong password"
  /\ Resp.status = 400

\* C3: a Set-Cookie header is sent only for a verified user who has a
\* subscription; for a verified user without one the response redirects to
\* the URL createStripeCheckoutSession returned, createUserSession and
\* commitSession are not called and there is no Set-Cookie header; never are
\* both a checkout session and a user session created.
C3_CookieOnlyWithSubscription ==
  Handled =>
    /\ (HasHeader("Set-Cookie") \/ Called("createUserSession")
          \/ Called("commitSession"))
         => (Verified /\ VerifiedUser.subscription)
    /\ (Verified /\ ~VerifiedUser.subscription) =>
         /\ Called("createStripeCheckoutSession")
         /\ ArgsOf("createStripeCheckoutSession")[1] = VerifiedUser.id
         /\ HasHeader("Location")
         /\ Resp.headers["Location"] = ResultOf("createStripeCheckoutSession")
         /\ Resp.status \in 300..399
         /\ ~Called("createUserSession")
         /\ ~Called("commitSession")
         /\ ~HasHeader("Set-Cookie")
    /\ ~(Called("createStripeCheckoutSession") /\ Called("createUserSession"))

C3_Witness ==
  /\ Handled /\ Verified /\ ~VerifiedUser.subscription
  /\ Called("createStripeCheckoutSession")
  /\ VerifiedUser.stripeCustomerId = "cus_1"

\* C4: every redirect the sign-in action returns has status 303.
C4_EveryRedirectIs303 ==
  (Handled /\ HasHeader("Location")) => Resp.status = 303

\* C6: when the form data fails the schema the action returns status 400
\* with an error for each failing field (and only those) and calls none of
\* verifyLogin, createStripeCheckoutSession, createUserSession, commitSession.
C6_SchemaFailureStopsBeforeCollaborators ==
  (Handled /\ ~PassesSchema(Req)) =>
    /\ Resp.status = 400
    /\ Resp.headers = NoHeaders
    /\ Len(Resp.body) = 1
    /\ DOMAIN Resp.body[1].error =
         (IF EmailAccepted(Req.email) THEN {} ELSE {"email"})
         \cup (IF PasswordAccepted(Req.password) THEN {} ELSE {"password"})
    /\ \A n \in DOMAIN Resp.body[1].error : Resp.body[1].error[n] # ""
    /\ calls = <<>>

C6_Witness ==
  /\ Handled /\ Req.intent = "submit"
  /\ EmailAccepted(Req.email)
  /\ Req.password.present /\ Req.password.len < 8
  /\ DOMAIN Resp.body[1].error = {"password"}

\* C9: a submission whose intent is not "submit" gets status 400 with the
\* submission as body, also when e-mail and password pass the schema, and
\* no collaborator is called.
C9_NonSubmitIntentIs400 ==
  (Handled /\ Req.intent # "submit") =>
    /\ Resp.status = 400
    /\ Resp.headers = NoHeaders
    /\ Len(Resp.body) = 1
    /\ Resp.body[1].intent = Req.intent
    /\ Resp.body[1].payload = [email |-> Req.email, password |-> Req.password]
    /\ (PassesSchema(Req) => DOMAIN Resp.body[1].error = {})
    /\ calls = <<>>

C9_Witness ==
  Handled /\ Req.intent = "validate/email" /\ PassesSchema(Req)
    /\ Resp.status = 400

(***************************************************************************)
(* Properties of the root ErrorBoundary                                    *)
(***************************************************************************)

\* C5: for every route error response (status 404, 500 or any other) the
\* boundary renders an error page carrying that status; it never fails to
\* render a page for a route error response.
C5_EveryRouteErrorResponseGetsAPage ==
  (mounted = "ErrorBoundary" /\ routeError # <<>> /\ routeError[1].isResponse)
    => (~rendered[1].threw /\ rendered[1].statusCode = routeError[1].status)

(***************************************************************************)
(* Properties of the ExerciseFieldset                                      *)
(***************************************************************************)

\* C8: "Add set" is offered exactly when there are fewer than 10 sets; the
\* number of sets never exceeds 10; a step that adds a set happens only when
\* the control is offered and appends one set with rir "0", repRange "5-8"
\* and empty weight at the end.
C8_AtMostTenSetsAppendedWithDefaults ==
  /\ [](AddSetOffered <=> Len(setsList) < 10)
  /\ [](Len(setsList) <= 10)
  /\ [][Len(setsList') > Len(setsList) =>
          /\ Len(setsList) < 10
          /\ setsList' = setsList \o
               <<[rir |-> "0", repRange |-> "5-8", weight |-> ""]>>]_vars

C8_Witness ==
  /\ mounted = "ExerciseFieldset" /\ Len(setsList) = 10
  /\ setsList[10] = [rir |-> "0", repRange |-> "5-8", weight |-> ""]
  /\ setsList[1] = LoadedSet

(***************************************************************************)
(* Properties of the Folder notes form                                     *)
(***************************************************************************)

\* C7: a submission happens only when the quiescence period has elapsed
\* since the last input change and a change is waiting, so each burst gives
\* one submission, carrying the content after the last change; it replaces
\* the history entry and keeps the scroll position; and every change is
\* eventually followed by a submission.
C7_DebouncedSubmission ==
  /\ [][submissions' # submissions =>
          /\ pending /\ elapsed = Delay /\ ~pending'
          /\ Len(submissions') = Len(submissions) + 1
          /\ submissions'[Len(submissions')].notes = fieldValue
          /\ submissions'[Len(submissions')].options.replace
          /\ submissions'[Len(submissions')].options.preventScrollReset
          /\ historyLen' = historyLen
          /\ scrollY' = scrollY]_vars
  /\ [](Len(submissions) <= changes)
  /\ [](pending => <>(~pending))

C7_Witness ==
  /\ mounted = "Folder" /\ changes >= 2 /\ Len(submissions) = 1
  /\ ~pending /\ scrollY > 0 /\ historyLen = 1
  /\ submissions[1].notes = fieldValue

====
